---- MODULE Spec2Model ----
(***************************************************************************)
(* Model of chrome_driver.py: the Chrome locator find_chrome, the option   *)
(* builder get_options, create_flatpak_wrapper_script and the two-attempt  *)
(* bootstrapper create_driver.                                             *)
(*                                                                         *)
(* Conventions.  A Python str is a sequence of fragments (TLA+ strings)    *)
(* whose concatenation is the text; every text is written with fragments   *)
(* of one fixed vocabulary, so equal texts are equal sequences and         *)
(* startswith / "in" are prefix / contiguous-subsequence tests.  The value *)
(* of HEADLESS is a sequence of single characters.  An optional value      *)
(* (None or a str) is a record [isNone, str].  An exception is the name of *)
(* its class.  One call of create_driver is one behaviour; pc is the       *)
(* position in the code.  A call of the environment (uc.Chrome,            *)
(* subprocess.run, shutil.which, tempfile, os.chmod, os.unlink) can fail   *)
(* where the code provides for its failure with a try; which exceptions    *)
(* the handler then catches is decided by the classes it names.            *)
(***************************************************************************)
EXTENDS Integers, Sequences, FiniteSets, TLC

VARIABLES
    pc,              \* position in create_driver / find_chrome
    platform,        \* platform.system()
    environ,         \* os.environ.get("HEADLESS"): optional character sequence
    existingPaths,   \* the fixed candidate paths that exist on disk
    tmpFiles,        \* temporary files on disk: name -> [exists, mode, content]
    chrome_options,  \* create_driver's local chrome_options
    chrome_path,     \* create_driver's local chrome_path
    wrapper_script,  \* create_driver's local wrapper_script (None: unbound)
    fcOutcome,       \* how find_chrome ended
    cdOutcome,       \* how create_driver ended
    listResult,      \* outcome of subprocess.run(["flatpak", "list", "--app"])
    constructCalls,  \* calls of uc.Chrome, in order
    spawned,         \* processes spawned by subprocess.run, in order
    whichCalls,      \* calls of shutil.which, in order
    unlinkCalls,     \* calls of os.unlink, in order
    locatorCalls,    \* number of calls of find_chrome
    log              \* logger records, in order

vars == <<pc, platform, environ, existingPaths, tmpFiles, chrome_options,
          chrome_path, wrapper_script, fcOutcome, cdOutcome, listResult,
          constructCalls, spawned, whichCalls, unlinkCalls, locatorCalls, log>>

----------------------------------------------------------------------------
(* Bounds *)

\* at most this many of the fixed candidate paths exist on disk
MaxExisting == 2
\* at most this many rows in the output of flatpak list
MaxRows == 2

----------------------------------------------------------------------------
(* Values *)

NoneVal == [isNone |-> TRUE, str |-> <<>>]
Some(s) == [isNone |-> FALSE, str |-> s]
\* Python truthiness of an optional str: None and "" are falsy
Truthy(v) == ~v.isNone /\ v.str # <<>>

StartsWith(s, prefix) ==
    /\ Len(prefix) <= Len(s)
    /\ SubSeq(s, 1, Len(prefix)) = prefix

\* needle in hay
Contains(hay, needle) ==
    \E i \in 0..(Len(hay) - Len(needle)) :
        SubSeq(hay, i + 1, i + Len(needle)) = needle

Platforms == {"Linux", "Windows", "Darwin"}

possiblePaths ==
    << "C:\\Program Files\\Google\\Chrome\\Application\\chrome.exe",
       "C:\\Program Files (x86)\\Google\\Chrome\\Application\\chrome.exe",
       "C:\\ProgramData\\chocolatey\\bin\\chrome.exe",
       "C:\\Users\\%USERNAME%\\AppData\\Local\\Google\\Chrome\\Application\\chrome.exe",
       "/usr/bin/google-chrome",
       "/usr/local/bin/google-chrome",
       "/opt/google/chrome/chrome",
       "/snap/bin/chromium",
       "/Applications/Google Chrome.app/Contents/MacOS/Google Chrome" >>

PossiblePathSet == {possiblePaths[i] : i \in DOMAIN possiblePaths}

flatpak_chrome_apps == << <<"com.google.Chrome">>, <<"org.chromium.Chromium">> >>

\* f"flatpak run {app_id}"
FlatpakRun(app_id) == <<"flatpak", " ", "run", " ">> \o app_id

\* the argument of chrome_path.startswith
FlatpakRunPrefix == <<"flatpak", " ", "run">>

ListArgv == <<"flatpak", "list", "--app">>
ListTimeout == 10

Mode755 == 493
TempFileMode == 384

TerminalError == "Exception([ChromeDriver] Failed to install ChromeDriver. ...)"

----------------------------------------------------------------------------
(* Exceptions: the class hierarchy the except clauses match against *)

ExcBase(c) ==
    CASE c = "TimeoutExpired"     -> "SubprocessError"
      [] c = "SubprocessError"    -> "Exception"
      [] c = "FileNotFoundError"  -> "OSError"
      [] c = "PermissionError"    -> "OSError"
      [] c = "OSError"            -> "Exception"
      [] c = "UnicodeDecodeError" -> "ValueError"
      [] c = "ValueError"         -> "Exception"
      [] c = "WebDriverException" -> "Exception"
      [] c = "Exception"          -> "BaseException"
      [] OTHER                    -> "object"

RECURSIVE IsInstance(_, _)
IsInstance(exc, cls) ==
    IF exc = cls THEN TRUE
    ELSE IF exc = "object" THEN FALSE
    ELSE IsInstance(ExcBase(exc), cls)

\* except (c1, c2, ...) catches exc
Caught(exc, classes) == \E c \in classes : IsInstance(exc, c)

\* except (subprocess.TimeoutExpired, subprocess.SubprocessError)
ListHandlerClasses == {"TimeoutExpired", "SubprocessError"}

----------------------------------------------------------------------------
(* The environment's possible answers *)

\* values of HEADLESS, as character sequences
HeadlessValues ==
    { NoneVal,
      Some(<<"t", "r", "u", "e">>),
      Some(<<"T", "R", "U", "E">>),
      Some(<<"T", "r", "u", "e">>),
      Some(<<"t", "R", "u", "E">>),
      Some(<<"f", "a", "l", "s", "e">>),
      Some(<<"t", "r", "u", "e", "e">>),
      Some(<<"t", "r", "u">>),
      Some(<<"1">>),
      Some(<<>>) }

\* rows of the output of flatpak list --app (name, application id, branch)
ListingRows ==
    { <<"Google Chrome", "\t", "com.google.Chrome", "\t", "stable", "\n">>,
      <<"Chromium", "\t", "org.chromium.Chromium", "\t", "stable", "\n">>,
      <<"Google Chrome (unstable)", "\t", "com.google.Chrome", "Dev", "\t", "stable", "\n">>,
      <<"Firefox", "\t", "org.mozilla.firefox", "\t", "stable", "\n">> }

RECURSIVE Listings(_)
Listings(n) ==
    IF n = 0 THEN {<<>>}
    ELSE Listings(n - 1) \cup {l \o r : l \in Listings(n - 1), r \in ListingRows}

\* exceptions subprocess.run can raise: the timeout, a failure of the
\* subprocess machinery, a failed spawn (OSError) and undecodable output
RunExceptions ==
    {"TimeoutExpired", "SubprocessError", "FileNotFoundError",
     "PermissionError", "UnicodeDecodeError"}

NoListResult == [kind |-> "none", exc |-> "", returncode |-> 0, stdout |-> <<>>]

RunOutcomes ==
    {[kind |-> "raise", exc |-> e, returncode |-> 0, stdout |-> <<>>] :
        e \in RunExceptions}
    \cup
    {[kind |-> "complete", exc |-> "", returncode |-> rc, stdout |-> out] :
        rc \in {0, 1}, out \in Listings(MaxRows)}

\* shutil.which(cmd): the joined path of the first PATH directory holding cmd,
\* None, or the failure that the try of lines 60-68 provides for
WhichOutcomes(cmd) ==
    { [cmd |-> cmd, raised |-> TRUE, result |-> NoneVal],
      [cmd |-> cmd, raised |-> FALSE, result |-> NoneVal],
      [cmd |-> cmd, raised |-> FALSE, result |-> Some(<<"/opt/bin", "/", cmd>>)] }

WhichException == "OSError"

TempNames == {"/tmp/tmpa1b2c3.sh", "/tmp/tmpd4e5f6.sh"}

NoFile == [exists |-> FALSE, mode |-> 0, content |-> <<>>]

----------------------------------------------------------------------------
(* get_options *)

LowerChar(c) ==
    CASE c = "T" -> "t"
      [] c = "R" -> "r"
      [] c = "U" -> "u"
      [] c = "E" -> "e"
      [] c = "F" -> "f"
      [] c = "A" -> "a"
      [] c = "L" -> "l"
      [] c = "S" -> "s"
      [] OTHER   -> c

\* str.lower() left out
LowerIdentity(s) == s

\* str.lower()
Lower(s) == [i \in DOMAIN s |-> LowerChar(s[i])]

\* os.environ.get("HEADLESS", "false")
EnvironGetHeadless(env) ==
    IF env.isNone THEN <<"f", "a", "l", "s", "e">> ELSE env.str

BaseArguments ==
    <<"--start-maximised", "--disable-extensions", "--disable-gpu", "--no-sandbox">>

HeadlessArgument == "--headless=new"

get_options(env) ==
    [arguments |->
        IF Lower(EnvironGetHeadless(env)) = <<"t", "r", "u", "e">>
        THEN Append(BaseArguments, HeadlessArgument)
        ELSE BaseArguments,
     binary_location |-> NoneVal]

NoOptions == [arguments |-> <<>>, binary_location |-> NoneVal]

----------------------------------------------------------------------------
(* Outcomes of the two functions *)

NoOutcome == [kind |-> "none", value |-> NoneVal, exc |-> "", handle |-> 0]
Returned(v) == [kind |-> "return", value |-> v, exc |-> "", handle |-> 0]
Raised(e) == [kind |-> "raise", value |-> NoneVal, exc |-> e, handle |-> 0]
\* create_driver returns the driver built by the n-th call of uc.Chrome
ReturnedDriver(n) == [kind |-> "return", value |-> NoneVal, exc |-> "", handle |-> n]

Init ==
    /\ pc = "cd_default"
    /\ platform \in Platforms
    /\ environ \in HeadlessValues
    /\ existingPaths \in {S \in SUBSET PossiblePathSet : Cardinality(S) <= MaxExisting}
    /\ tmpFiles = [n \in TempNames |-> NoFile]
    /\ chrome_options = NoOptions
    /\ chrome_path = NoneVal
    /\ wrapper_script = NoneVal
    /\ fcOutcome = NoOutcome
    /\ cdOutcome = NoOutcome
    /\ listResult = NoListResult
    /\ constructCalls = <<>>
    /\ spawned = <<>>
    /\ whichCalls = <<>>
    /\ unlinkCalls = <<>>
    /\ locatorCalls = 0
    /\ log = <<>>

----------------------------------------------------------------------------
(* find_chrome *)

\* the loop over possiblePaths returning the last existing path
LastExistingPath(paths, existing) ==
    LET idx == {i \in DOMAIN paths : paths[i] \in existing}
    IN  IF idx = {} THEN 0 ELSE CHOOSE i \in idx : \A j \in idx : j <= i

RECURSIVE ScanFrom(_, _, _)
ScanFrom(i, paths, existing) ==
    IF i > Len(paths) THEN 0
    ELSE IF paths[i] \in existing THEN i
    ELSE ScanFrom(i + 1, paths, existing)

\* for path in possiblePaths: if os.path.exists(path): return path
\* (the index of the returned path, 0 when the loop falls through)
FirstExistingPath(paths, existing) == ScanFrom(1, paths, existing)

\* the Flatpak probe made on every platform
ProbeFlatpakAnywhere(plat) == TRUE

\* if platform.system() == "Linux"
ProbeFlatpak(plat) == plat = "Linux"

RECURSIVE MatchFrom(_, _, _)
MatchFrom(i, apps, installed_apps) ==
    IF i > Len(apps) THEN 0
    ELSE IF Contains(installed_apps, apps[i]) THEN i
    ELSE MatchFrom(i + 1, apps, installed_apps)

\* the loop over the app ids returning the last one installed
LastInstalledApp(apps, installed_apps) ==
    LET idx == {i \in DOMAIN apps : Contains(installed_apps, apps[i])}
    IN  IF idx = {} THEN 0 ELSE CHOOSE i \in idx : \A j \in idx : j <= i

\* for app_id in flatpak_chrome_apps: if app_id in installed_apps: return ...
\* (the index of the matching app id, 0 when the loop falls through)
FirstInstalledApp(apps, installed_apps) == MatchFrom(1, apps, installed_apps)

\* the sequences of shutil.which calls the PATH lookup can make
LookupCalls(plat) ==
    IF plat = "Windows"
    THEN {<<w>> : w \in WhichOutcomes("chrome")}
    ELSE {<<w1>> : w1 \in {w \in WhichOutcomes("google-chrome") :
                              w.raised \/ Truthy(w.result)}}
         \cup
         {<<w1, w2>> : w1 \in {w \in WhichOutcomes("google-chrome") :
                                  ~w.raised /\ ~Truthy(w.result)},
                       w2 \in WhichOutcomes("chromium")}

\* lines 18-33: the scan of the fixed candidate paths
FcScanPaths ==
    /\ pc = "fc_scan"
    /\ LET i == FirstExistingPath(possiblePaths, existingPaths)
       IN  IF i # 0
           THEN /\ fcOutcome' = Returned(Some(<<possiblePaths[i]>>))
                /\ chrome_path' = Some(<<possiblePaths[i]>>)
                /\ pc' = "cd_fallback"
           ELSE /\ pc' = "fc_flatpak"
                /\ UNCHANGED <<fcOutcome, chrome_path>>
    /\ UNCHANGED <<platform, environ, existingPaths, tmpFiles, chrome_options,
                   wrapper_script, cdOutcome, listResult, constructCalls,
                   spawned, whichCalls, unlinkCalls, locatorCalls, log>>

\* lines 36-43: the platform test and shutil.which("flatpak").  This call
\* stands outside every try: it answers with a path or with None
FcCheckFlatpak ==
    /\ pc = "fc_flatpak"
    /\ IF ~ProbeFlatpak(platform)
       THEN /\ pc' = "fc_lookup"
            /\ UNCHANGED whichCalls
       ELSE \E w \in {o \in WhichOutcomes("flatpak") : ~o.raised} :
              /\ whichCalls' = Append(whichCalls, w)
              /\ pc' = IF Truthy(w.result) THEN "fc_list" ELSE "fc_lookup"
    /\ UNCHANGED <<platform, environ, existingPaths, tmpFiles, chrome_options,
                   chrome_path, wrapper_script, fcOutcome, cdOutcome,
                   listResult, constructCalls, spawned, unlinkCalls,
                   locatorCalls, log>>

\* lines 44-57: subprocess.run(["flatpak", "list", "--app"], timeout=10) and
\* the search of its output
FcListFlatpak ==
    /\ pc = "fc_list"
    /\ \E r \in RunOutcomes :
         LET m == FirstInstalledApp(flatpak_chrome_apps, r.stdout) IN
         /\ spawned' = Append(spawned, [argv |-> ListArgv, timeout |-> ListTimeout])
         /\ listResult' = r
         /\ IF r.kind = "raise"
            THEN IF Caught(r.exc, ListHandlerClasses)
                 THEN /\ log' = Append(log, <<"warning", "Error checking Flatpak installations">>)
                      /\ pc' = "fc_lookup"
                      /\ UNCHANGED <<fcOutcome, cdOutcome, chrome_path>>
                 ELSE /\ fcOutcome' = Raised(r.exc)
                      /\ cdOutcome' = Raised(r.exc)
                      /\ pc' = "done"
                      /\ UNCHANGED <<log, chrome_path>>
            ELSE IF r.returncode = 0 /\ m # 0
                 THEN /\ log' = Append(log, <<"info", "Found Flatpak Chrome installation">>)
                      /\ fcOutcome' = Returned(Some(FlatpakRun(flatpak_chrome_apps[m])))
                      /\ chrome_path' = Some(FlatpakRun(flatpak_chrome_apps[m]))
                      /\ pc' = "cd_fallback"
                      /\ UNCHANGED cdOutcome
                 ELSE /\ pc' = "fc_lookup"
                      /\ UNCHANGED <<fcOutcome, cdOutcome, chrome_path, log>>
    /\ UNCHANGED <<platform, environ, existingPaths, tmpFiles, chrome_options,
                   wrapper_script, constructCalls, whichCalls, unlinkCalls,
                   locatorCalls>>

\* lines 59-70: the PATH lookup and the final return None
FcPathLookup ==
    /\ pc = "fc_lookup"
    /\ \E calls \in LookupCalls(platform) :
         LET last == calls[Len(calls)]
             result == IF ~last.raised /\ Truthy(last.result)
                       THEN last.result ELSE NoneVal
         IN  /\ whichCalls' = whichCalls \o calls
             /\ log' = IF last.raised
                       THEN Append(log, <<"error", "Error while searching system paths for Chrome">>)
                       ELSE log
             /\ fcOutcome' = Returned(result)
             /\ chrome_path' = result
             /\ pc' = "cd_fallback"
    /\ UNCHANGED <<platform, environ, existingPaths, tmpFiles, chrome_options,
                   wrapper_script, cdOutcome, listResult, constructCalls,
                   spawned, unlinkCalls, locatorCalls>>

----------------------------------------------------------------------------
(* create_flatpak_wrapper_script *)

\* f'#!/bin/bash\nexec {flatpak_command} "$@"\n'
WrapperContent(flatpak_command) ==
    <<"#!/bin/bash", "\n", "exec", " ">> \o flatpak_command
        \o <<" ", "\"$@\"", "\n">>

\* where create_flatpak_wrapper_script can stop: NamedTemporaryFile raises
\* (no file), f.write raises (empty file left behind), os.chmod raises
\* (written file left behind with the mode of its creation), or none raises
WrapperSteps == {"NamedTemporaryFile", "write", "chmod", "ok"}

WrapperFileAfter(step, flatpak_command) ==
    CASE step = "NamedTemporaryFile" -> NoFile
      [] step = "write" -> [exists |-> TRUE, mode |-> TempFileMode, content |-> <<>>]
      [] step = "chmod" -> [exists |-> TRUE, mode |-> TempFileMode,
                            content |-> WrapperContent(flatpak_command)]
      [] OTHER          -> [exists |-> TRUE, mode |-> Mode755,
                            content |-> WrapperContent(flatpak_command)]

----------------------------------------------------------------------------
(* create_driver *)

\* no Flatpak-specific options
NoExtraArguments == <<>>

\* the two add_argument calls of the Flatpak branch
FlatpakExtraArguments == <<"--disable-dev-shm-usage", "--disable-setuid-sandbox">>

\* the clean-up left out
NeverUnlink(script, files) == FALSE

\* 'wrapper_script' in locals() and os.path.exists(wrapper_script)
ShouldUnlink(script, files) == ~script.isNone /\ files[script.str[1]].exists

ConstructCall(options, path, ok) ==
    [options |-> options, browser_executable_path |-> path, ok |-> ok]

\* lines 112-120: the default attempt; on an exception find_chrome is called
CdDefaultAttempt ==
    /\ pc = "cd_default"
    /\ \E ok \in BOOLEAN :
         LET options == get_options(environ) IN
         /\ chrome_options' = options
         /\ constructCalls' = Append(constructCalls, ConstructCall(options, NoneVal, ok))
         /\ IF ok
            THEN /\ log' = Append(log, <<"info", "ChromeDriver installed and browser started.">>)
                 /\ cdOutcome' = ReturnedDriver(Len(constructCalls) + 1)
                 /\ pc' = "done"
                 /\ UNCHANGED locatorCalls
            ELSE /\ log' = Append(log, <<"warning", "Default ChromeDriver creation failed. Trying alternative paths...">>)
                 /\ locatorCalls' = locatorCalls + 1
                 /\ pc' = "fc_scan"
                 /\ UNCHANGED cdOutcome
    /\ UNCHANGED <<platform, environ, existingPaths, tmpFiles, chrome_path,
                   wrapper_script, fcOutcome, listResult, spawned, whichCalls,
                   unlinkCalls>>

\* lines 121-125, 147, 156-157: the branch on find_chrome's result
CdFallback ==
    /\ pc = "cd_fallback"
    /\ IF ~Truthy(chrome_path)
       THEN /\ log' = Append(log, <<"error", "No Chrome executable found in known paths or Flatpak installations.">>)
            /\ pc' = "cd_raise"
            /\ UNCHANGED chrome_options
       ELSE /\ chrome_options' = get_options(environ)
            /\ pc' = IF StartsWith(chrome_path.str, FlatpakRunPrefix)
                     THEN "cd_wrapper" ELSE "cd_direct"
            /\ UNCHANGED log
    /\ UNCHANGED <<platform, environ, existingPaths, tmpFiles, chrome_path,
                   wrapper_script, fcOutcome, cdOutcome, listResult,
                   constructCalls, spawned, whichCalls, unlinkCalls,
                   locatorCalls>>

\* line 128 with lines 88-106: the wrapper script is created
CdCreateWrapper ==
    /\ pc = "cd_wrapper"
    /\ \E name \in {n \in TempNames : ~tmpFiles[n].exists}, step \in WrapperSteps :
         /\ tmpFiles' = [tmpFiles EXCEPT ![name] = WrapperFileAfter(step, chrome_path.str)]
         /\ IF step = "ok"
            THEN /\ log' = Append(log, <<"info", "Created Flatpak wrapper script">>)
                 /\ wrapper_script' = Some(<<name>>)
                 /\ pc' = "cd_flatpak_attempt"
            ELSE /\ pc' = "cd_cleanup"
                 /\ UNCHANGED <<log, wrapper_script>>
    /\ UNCHANGED <<platform, environ, existingPaths, chrome_options, chrome_path,
                   fcOutcome, cdOutcome, listResult, constructCalls, spawned,
                   whichCalls, unlinkCalls, locatorCalls>>

\* lines 129-137: the attempt with the wrapper script
CdFlatpakAttempt ==
    /\ pc = "cd_flatpak_attempt"
    /\ \E ok \in BOOLEAN :
         LET options == [arguments |-> chrome_options.arguments \o FlatpakExtraArguments,
                         binary_location |-> wrapper_script]
         IN  /\ chrome_options' = options
             /\ constructCalls' = Append(constructCalls,
                                         ConstructCall(options, wrapper_script, ok))
             /\ IF ok
                THEN /\ log' = Append(log, <<"info", "ChromeDriver started using Flatpak Chrome">>)
                     /\ cdOutcome' = ReturnedDriver(Len(constructCalls) + 1)
                     /\ pc' = "done"
                ELSE /\ pc' = "cd_cleanup"
                     /\ UNCHANGED <<log, cdOutcome>>
    /\ UNCHANGED <<platform, environ, existingPaths, tmpFiles, chrome_path,
                   wrapper_script, fcOutcome, listResult, spawned, whichCalls,
                   unlinkCalls, locatorCalls>>

\* lines 139-146: the handler of the Flatpak branch, with its best-effort
\* os.unlink whose own exception is swallowed
CdCleanup ==
    /\ pc = "cd_cleanup"
    /\ log' = Append(log, <<"error", "ChromeDriver failed using Flatpak Chrome">>)
    /\ IF ShouldUnlink(wrapper_script, tmpFiles)
       THEN \E ok \in BOOLEAN :
              /\ unlinkCalls' = Append(unlinkCalls, [path |-> wrapper_script.str, ok |-> ok])
              /\ tmpFiles' = IF ok
                             THEN [tmpFiles EXCEPT ![wrapper_script.str[1]] = NoFile]
                             ELSE tmpFiles
       ELSE UNCHANGED <<unlinkCalls, tmpFiles>>
    /\ pc' = "cd_raise"
    /\ UNCHANGED <<platform, environ, existingPaths, chrome_options, chrome_path,
                   wrapper_script, fcOutcome, cdOutcome, listResult,
                   constructCalls, spawned, whichCalls, locatorCalls>>

\* lines 149-155: the attempt with a direct path
CdDirectAttempt ==
    /\ pc = "cd_direct"
    /\ \E ok \in BOOLEAN :
         LET options == [chrome_options EXCEPT !.binary_location = chrome_path]
         IN  /\ chrome_options' = options
             /\ constructCalls' = Append(constructCalls,
                                         ConstructCall(options, chrome_path, ok))
             /\ IF ok
                THEN /\ log' = Append(log, <<"info", "ChromeDriver started using browser_executable_path">>)
                     /\ cdOutcome' = ReturnedDriver(Len(constructCalls) + 1)
                     /\ pc' = "done"
                ELSE /\ log' = Append(log, <<"error", "ChromeDriver failed using path">>)
                     /\ pc' = "cd_raise"
                     /\ UNCHANGED cdOutcome
    /\ UNCHANGED <<platform, environ, existingPaths, tmpFiles, chrome_path,
                   wrapper_script, fcOutcome, listResult, spawned, whichCalls,
                   unlinkCalls, locatorCalls>>

\* lines 159-164: the terminal error
CdRaiseTerminal ==
    /\ pc = "cd_raise"
    /\ cdOutcome' = Raised(TerminalError)
    /\ pc' = "done"
    /\ UNCHANGED <<platform, environ, existingPaths, tmpFiles, chrome_options,
                   chrome_path, wrapper_script, fcOutcome, listResult,
                   constructCalls, spawned, whichCalls, unlinkCalls,
                   locatorCalls, log>>

Next ==
    \/ CdDefaultAttempt
    \/ FcScanPaths
    \/ FcCheckFlatpak
    \/ FcListFlatpak
    \/ FcPathLookup
    \/ CdFallback
    \/ CdCreateWrapper
    \/ CdFlatpakAttempt
    \/ CdCleanup
    \/ CdDirectAttempt
    \/ CdRaiseTerminal

Spec == Init /\ [][Next]_vars

----------------------------------------------------------------------------
(* Vocabulary of the properties *)

ChromeAppId == <<"com.google.Chrome">>
ChromiumAppId == <<"org.chromium.Chromium">>
FlatpakRunChrome == Some(<<"flatpak", " ", "run", " ", "com.google.Chrome">>)
FlatpakRunChromium == Some(<<"flatpak", " ", "run", " ", "org.chromium.Chromium">>)

HasArgument(options, a) ==
    \E i \in DOMAIN options.arguments : options.arguments[i] = a

\* the value shutil.which gave for cmd, None when it gave none
Resolution(cmd) ==
    LET hits == {i \in DOMAIN whichCalls :
                    /\ whichCalls[i].cmd = cmd
                    /\ ~whichCalls[i].raised
                    /\ Truthy(whichCalls[i].result)}
    IN  IF hits = {} THEN NoneVal ELSE whichCalls[CHOOSE i \in hits : TRUE].result

\* what the PATH lookup step is to return
ExpectedLookup ==
    IF platform = "Windows" THEN Resolution("chrome")
    ELSE IF Truthy(Resolution("google-chrome")) THEN Resolution("google-chrome")
    ELSE Resolution("chromium")

NoChromeLookup == \A i \in DOMAIN whichCalls : whichCalls[i].cmd = "flatpak"

FindChromeEnded == fcOutcome.kind # "none"

ListingFailed ==
    \/ listResult.kind = "raise"
    \/ listResult.kind = "complete" /\ listResult.returncode # 0

FlatpakSkipped ==
    \/ platform # "Linux"
    \/ \E i \in DOMAIN whichCalls :
          /\ whichCalls[i].cmd = "flatpak"
          /\ ~whichCalls[i].raised
          /\ ~Truthy(whichCalls[i].result)

ListingWithoutMatch ==
    /\ listResult.kind = "complete"
    /\ listResult.returncode = 0
    /\ ~Contains(listResult.stdout, ChromeAppId)
    /\ ~Contains(listResult.stdout, ChromiumAppId)

WrapperBound == ~wrapper_script.isNone
WrapperFile == tmpFiles[wrapper_script.str[1]]

----------------------------------------------------------------------------
(* Properties *)

\* C1: the only error create_driver lets reach its caller is the terminal
\* error; every other exception is absorbed.
C1_OnlyTerminalErrorPropagates ==
    cdOutcome.kind = "raise" => cdOutcome.exc = TerminalError

\* C2: find_chrome does not raise when the Flatpak listing command fails
\* (timeout, spawn error, any other failure): it goes on to the PATH lookup
\* and returns that step's result; and when the PATH lookup itself fails it
\* returns None.
C2_FindChromeNeverRaises ==
    /\ ListingFailed => fcOutcome.kind # "raise"
    /\ (FindChromeEnded /\ ListingFailed) =>
          /\ fcOutcome.kind = "return"
          /\ fcOutcome.value = ExpectedLookup
    /\ (FindChromeEnded /\ \E i \in DOMAIN whichCalls :
                              whichCalls[i].cmd # "flatpak" /\ whichCalls[i].raised) =>
          fcOutcome = Returned(NoneVal)

\* C3: when a fixed candidate path exists, find_chrome returns the first
\* existing one in list order, and neither flatpak nor PATH is ever queried.
C3_FixedPathFirst ==
    existingPaths # {} =>
        /\ whichCalls = <<>>
        /\ spawned = <<>>
        /\ (locatorCalls = 1 /\ pc # "fc_scan") => fcOutcome.kind = "return"
        /\ FindChromeEnded =>
              \E i \in DOMAIN possiblePaths :
                  /\ fcOutcome = Returned(Some(<<possiblePaths[i]>>))
                  /\ possiblePaths[i] \in existingPaths
                  /\ \A j \in 1..(i - 1) : possiblePaths[j] \notin existingPaths

C3_Witness ==
    /\ fcOutcome.kind = "return"
    /\ Cardinality(existingPaths) = 2
    /\ possiblePaths[1] \notin existingPaths

\* C4: flatpak list --app is spawned at most once, and only when no fixed
\* path exists, the platform is Linux and flatpak resolved on PATH.
C4_SpawnOnlyWhenFlatpakPresent ==
    /\ Len(spawned) <= 1
    /\ \A i \in DOMAIN spawned : spawned[i].argv = <<"flatpak", "list", "--app">>
    /\ spawned # <<>> =>
          /\ existingPaths = {}
          /\ platform = "Linux"
          /\ \E i \in DOMAIN whichCalls :
                /\ whichCalls[i].cmd = "flatpak"
                /\ ~whichCalls[i].raised
                /\ Truthy(whichCalls[i].result)

C4_Witness ==
    /\ Len(spawned) = 1
    /\ FindChromeEnded

\* C5 as stated: with the wrapper script created, a successful second
\* construction leaves the script on disk and a failed one ends with the
\* script deleted and the terminal error raised.
C5_WrapperDeletedOnFailure ==
    (pc = "done" /\ WrapperBound) =>
        IF cdOutcome.kind = "return"
        THEN WrapperFile.exists
        ELSE ~WrapperFile.exists /\ cdOutcome = Raised(TerminalError)

\* C5 amended: with the wrapper script created, a successful second
\* construction leaves the script on disk untouched; a failed one is followed
\* by one attempt to delete the script and then by the terminal error, and
\* the script is gone exactly when that attempt succeeded.
C5_WrapperBestEffortDelete ==
    /\ (pc = "done" /\ WrapperBound) =>
          IF cdOutcome.kind = "return"
          THEN WrapperFile.exists /\ unlinkCalls = <<>>
          ELSE /\ cdOutcome = Raised(TerminalError)
               /\ Len(unlinkCalls) = 1
               /\ unlinkCalls[1].path = wrapper_script.str
               /\ unlinkCalls[1].ok <=> ~WrapperFile.exists
    /\ (pc = "cd_raise" /\ WrapperBound) => Len(unlinkCalls) = 1

C5_Witness ==
    /\ pc = "done"
    /\ WrapperBound
    /\ Len(constructCalls) = 2
    /\ ~constructCalls[2].ok
    /\ ~WrapperFile.exists
    /\ cdOutcome = Raised(TerminalError)

\* C6: create_driver ends with a driver from a successful construction or
\* with the terminal error, after at most two constructions and at most one
\* call of the locator, made only after the default attempt raised; a second
\* construction needs a result of the locator, and "not found" means the
\* terminal error after the default attempt alone.
C6_TwoAttemptsThenDoneOrFailed ==
    /\ Len(constructCalls) <= 2
    /\ locatorCalls <= 1
    /\ locatorCalls = 1 => (constructCalls # <<>> /\ ~constructCalls[1].ok)
    /\ Len(constructCalls) = 2 => (fcOutcome.kind = "return" /\ Truthy(fcOutcome.value))
    /\ pc = "done" =>
          \/ /\ cdOutcome.kind = "return"
             /\ cdOutcome.handle \in DOMAIN constructCalls
             /\ constructCalls[cdOutcome.handle].ok
          \/ cdOutcome = Raised(TerminalError)
    /\ (pc = "done" /\ fcOutcome = Returned(NoneVal)) =>
          /\ cdOutcome = Raised(TerminalError)
          /\ Len(constructCalls) = 1

CaseInsensitiveTrue(env) ==
    /\ ~env.isNone
    /\ Len(env.str) = 4
    /\ env.str[1] \in {"t", "T"}
    /\ env.str[2] \in {"r", "R"}
    /\ env.str[3] \in {"u", "U"}
    /\ env.str[4] \in {"e", "E"}

OptionsAsSpecified(options) ==
    /\ HasArgument(options, "--headless=new") <=> CaseInsensitiveTrue(environ)
    /\ HasArgument(options, "--start-maximised")
    /\ HasArgument(options, "--disable-extensions")
    /\ HasArgument(options, "--disable-gpu")
    /\ HasArgument(options, "--no-sandbox")

\* C7: every configuration handed to a construction holds the headless option
\* exactly when HEADLESS is set and equals "true" ignoring case, and always
\* holds the four base options.
C7_HeadlessIffTrue ==
    /\ \A i \in DOMAIN constructCalls : OptionsAsSpecified(constructCalls[i].options)
    /\ pc # "cd_default" => OptionsAsSpecified(chrome_options)

C7_Witness ==
    /\ Len(constructCalls) = 2
    /\ environ = Some(<<"t", "R", "u", "E">>)
    /\ HasArgument(constructCalls[2].options, "--headless=new")

\* C8: with no fixed path and no Flatpak match (step skipped, no matching app
\* id, or failed), find_chrome returns the PATH lookup result: chrome on
\* Windows, google-chrome then chromium elsewhere, None when none resolves.
C8_PathLookupResult ==
    (/\ FindChromeEnded
     /\ existingPaths = {}
     /\ FlatpakSkipped \/ ListingWithoutMatch \/ ListingFailed) =>
        /\ fcOutcome.kind = "return"
        /\ fcOutcome.value = ExpectedLookup

\* C9 as stated: when the listing command completes and its output holds a
\* known app id, find_chrome returns "flatpak run <app-id>" for the first such
\* id (com.google.Chrome before org.chromium.Chromium) without a PATH lookup.
C9_FlatpakMatchWhenCompleted ==
    (FindChromeEnded /\ listResult.kind = "complete") =>
        /\ Contains(listResult.stdout, ChromeAppId) =>
              (fcOutcome = Returned(FlatpakRunChrome) /\ NoChromeLookup)
        /\ (/\ ~Contains(listResult.stdout, ChromeAppId)
            /\ Contains(listResult.stdout, ChromiumAppId)) =>
              (fcOutcome = Returned(FlatpakRunChromium) /\ NoChromeLookup)

\* C9 amended: when the listing command completes with exit status 0 and its
\* output holds a known app id, find_chrome returns "flatpak run <app-id>" for
\* the first such id (com.google.Chrome before org.chromium.Chromium) without
\* a PATH lookup.
C9_FlatpakMatchWhenExitZero ==
    (listResult.kind = "complete" /\ listResult.returncode = 0) =>
        /\ Contains(listResult.stdout, ChromeAppId) =>
              (fcOutcome = Returned(FlatpakRunChrome) /\ NoChromeLookup)
        /\ (/\ ~Contains(listResult.stdout, ChromeAppId)
            /\ Contains(listResult.stdout, ChromiumAppId)) =>
              (fcOutcome = Returned(FlatpakRunChromium) /\ NoChromeLookup)

C9_Witness ==
    /\ listResult.kind = "complete"
    /\ listResult.returncode = 0
    /\ Len(listResult.stdout) > 0
    /\ listResult.stdout[1] = "Chromium"
    /\ Contains(listResult.stdout, ChromeAppId)
    /\ fcOutcome = Returned(FlatpakRunChrome)

ResultIsFlatpak == chrome_path \in {FlatpakRunChrome, FlatpakRunChromium}

ExpectedWrapperFile ==
    [exists |-> TRUE,
     mode |-> Mode755,
     content |-> <<"#!/bin/bash", "\n", "exec", " ">> \o chrome_path.str
                     \o <<" ", "\"$@\"", "\n">>]

HasFlatpakExtras(options) ==
    /\ HasArgument(options, "--disable-dev-shm-usage")
    /\ HasArgument(options, "--disable-setuid-sandbox")

HasNoFlatpakExtras(options) ==
    /\ ~HasArgument(options, "--disable-dev-shm-usage")
    /\ ~HasArgument(options, "--disable-setuid-sandbox")

\* C10: the second construction gets one value as binary location and as
\* executable path: the locator's path for a direct path, the freshly created
\* wrapper script (mode 0755, exec of the Flatpak command with "$@") for a
\* Flatpak invocation; the two extra options are added in the Flatpak case
\* only, and no wrapper script exists on the other paths.
C10_FallbackConfiguration ==
    /\ constructCalls # <<>> =>
          /\ constructCalls[1].browser_executable_path = NoneVal
          /\ constructCalls[1].options.binary_location = NoneVal
          /\ HasNoFlatpakExtras(constructCalls[1].options)
    /\ Len(constructCalls) = 2 =>
          LET c == constructCalls[2] IN
          /\ c.options.binary_location = c.browser_executable_path
          /\ IF ResultIsFlatpak
             THEN /\ WrapperBound
                  /\ c.browser_executable_path = wrapper_script
                  /\ HasFlatpakExtras(c.options)
                  /\ unlinkCalls = <<>> => WrapperFile = ExpectedWrapperFile
             ELSE /\ Truthy(chrome_path)
                  /\ c.browser_executable_path = chrome_path
                  /\ HasNoFlatpakExtras(c.options)
    /\ pc = "cd_flatpak_attempt" =>
          (WrapperBound /\ WrapperFile = ExpectedWrapperFile)
    /\ (WrapperBound \/ \E n \in TempNames : tmpFiles[n].exists) =>
          /\ ResultIsFlatpak
          /\ ~constructCalls[1].ok

C10_Witness ==
    /\ Len(constructCalls) = 2
    /\ constructCalls[2].ok
    /\ chrome_path = FlatpakRunChromium
    /\ WrapperFile = ExpectedWrapperFile

====
